---- MODULE Spec2Model ----
(***************************************************************************)
(* State-machine model of the grants-stack indexer's event handler         *)
(* (src/src/handleEvent.ts).  One indexer instance owns one storage (the   *)
(* "projects" and "rounds" collections), one cache and one set of contract *)
(* subscriptions; the chain watcher hands it decoded events one at a time. *)
(* Every action below is one case of the switch in handleEvent.            *)
(***************************************************************************)
EXTENDS Integers, Sequences, FiniteSets, TLC

VARIABLES
    chainId,        \* indexer.chainId
    projects,       \* db.collection("projects"): sequence of documents
    rounds,         \* db.collection("rounds"): sequence of documents
    subscriptions,  \* contracts the indexer was told to subscribe to
    cache,          \* indexer.cache: ipfs cid -> cached content
    nEvents,        \* number of events delivered so far
    lastEvent,      \* the event of the last handleEvent call
    outcome,        \* how that call ended: "ok" (resolved) or "error" (rejected)
    changesets,     \* what that call returned to its caller
    applications,   \* the collections rounds/<round>/projects
    votes,          \* the collections rounds/<round>/votes and
                    \* rounds/<round>/projects/<project>/votes
    priceCache,     \* indexer.cache: the cached (price key, price) pairs
    roundCall,      \* a "RoundCreated" call followed await by await
    state,          \* passport provider: state (type, pollTimeoutId, db)
    scores,         \* passport provider: the Level database at dbPath
    timers,         \* passport provider: timeouts scheduled and not yet fired
    tasks,          \* passport provider: start() and poll() calls in progress
    lastCall,       \* passport provider: the last call made or ended
    nCalls,         \* passport provider: calls made and timeouts fired so far
    pollTimeoutId,  \* price updater: pollTimeoutId
    pricesFile,     \* price updater: the prices file of the chain
    priceTimers,    \* price updater: timeouts scheduled and not yet fired
    updates,        \* price updater: start() and poll() calls in progress
    wallClock,      \* price updater: the wall clock
    lastPriceCall,  \* price updater: the last of start() / stop() called
    lastUpdate,     \* price updater: how the last ended update went
    nPriceCalls     \* price updater: calls of start() and timeouts fired so far

voteVars == <<applications, votes, priceCache>>

vars == <<chainId, projects, rounds, subscriptions, cache, nEvents,
          lastEvent, outcome, changesets, applications, votes, priceCache,
          roundCall, state, scores, timers, tasks, lastCall, nCalls,
          pollTimeoutId, pricesFile, priceTimers, updates, wallClock,
          lastPriceCall, lastUpdate, nPriceCalls>>

priceVars == <<pollTimeoutId, pricesFile, priceTimers, updates, wallClock,
               lastPriceCall, lastUpdate, nPriceCalls>>

passportVars == <<state, scores, timers, tasks, lastCall, nCalls>>

handlerVars == <<chainId, projects, rounds, subscriptions, cache, nEvents,
                 lastEvent, outcome, changesets, applications, votes,
                 priceCache, roundCall>>

----------------------------------------------------------------------------
(* Bounds of the model *)

MaxEvents == 3
MaxVoteEvents == 4
MaxRoundCalls == 2
MaxCalls == 4
MaxPriceCalls == 2            \* calls of start() and timeouts fired
MaxUpdates == 1               \* price updates in progress at a time
MaxClock == 6                 \* the clock runs up to 3 hours

(* Small input domains *)

ChainIds == {1}           \* one indexer, one storage, one chain
Registries == {"registryA", "registryB"}
Accounts == {"acct1", "acct2"}
ProjectIDs == {1, 2}
Cids == {"cid1", "cid2"}
Contents == {"meta1", "meta2"}
RoundAddresses == {"round1", "round2"}
Factories == {"roundFactory"}
Implementations == {"roundImpl"}
Programs == {"program1"}
Strategies == {"strategy1"}
Grants == {"grant1"}
Tokens == {"0xTOKEN"}
TxHashes == {"tx1"}
Amounts == {1, 2}             \* vote amounts, in whole tokens of 10^18 wei
Clock == {250500, 400000}     \* readings of the wall clock, in milliseconds

Null == "null"              \* JavaScript null
Undefined == "undefined"    \* JavaScript undefined / absent
Failed == "failed"          \* a rejected read or fetch
NoEvent == [name |-> "none"]

----------------------------------------------------------------------------
(* Role constants of the access-control contracts, as the handler's tests  *)
(* give them.                                                              *)

DefaultAdminRole == "0x0000000000000000000000000000000000000000000000000000000000000000"
ProgramOperatorRole == "0xaa630204f2780b6f080cc77cc0e9c0a5c21e92eb0c6771e709255dd27d6de132"
RoundOperatorRole == "0xec61da14b5abbac5c5fda6f1d57642a264ebd5d0674f35852829746dfb8174a5"
UnknownRoleConstant == "0x1111111111111111111111111111111111111111111111111111111111111111"

RoleConstants == {DefaultAdminRole, ProgramOperatorRole, RoundOperatorRole,
                  UnknownRoleConstant}

RoleContracts == {"AlloV1/ProgramImplementation/V1",
                  "AlloV1/RoundImplementation/V1",
                  "AlloV1/RoundImplementation/V2"}

IsProgramContract(contractName) == contractName = "AlloV1/ProgramImplementation/V1"

\* The role a (contract, role constant) pair stands for, Undefined when the
\* table has no row for it.
ExpectedRole(contractName, role) ==
    IF IsProgramContract(contractName)
    THEN CASE role = DefaultAdminRole -> "owner"
           [] role = ProgramOperatorRole -> "member"
           [] OTHER -> Undefined
    ELSE CASE role = DefaultAdminRole -> "admin"
           [] role = RoundOperatorRole -> "manager"
           [] OTHER -> Undefined

----------------------------------------------------------------------------
(* Pure helpers *)

\* ethers.utils.solidityKeccak256(["uint256","address","uint256"], [...]):
\* the packed encoding of three fixed-width values is injective, and the
\* digest is modelled as a tagged value over that encoding.
fullProjectId(projectChainId, projectId, projectRegistryAddress) ==
    <<"keccak256", projectChainId, projectRegistryAddress, projectId>>

\* Positions of the documents of a collection whose id is `id`.  insert does
\* not look at the ids already stored, so several documents can share one;
\* updateById then rewrites one of them.
IndexesById(coll, id) == {i \in 1..Len(coll) : coll[i].id = id}

\* cachedIpfs: cache.lazy returns the cached value when there is one and
\* otherwise runs the fetch, which resolves to some content or rejects.
IpfsOutcomes(cid) ==
    IF cache[cid] # Undefined THEN {cache[cid]} ELSE Contents \cup {Failed}

CacheAfter(cid, res) ==
    IF res = Failed THEN cache ELSE [cache EXCEPT ![cid] = res]

----------------------------------------------------------------------------
(* Events the chain watcher can deliver *)

\* Events arrive in increasing block order: the n-th event is in block n.
NextBlocks == {nEvents + 1}

ProjectEvents(name) ==
    [name : {name}, address : Registries, blockNumber : NextBlocks,
     args : [projectID : ProjectIDs, owner : Accounts]]

MetadataEvents ==
    [name : {"MetadataUpdated"}, address : Registries, blockNumber : NextBlocks,
     args : [projectID : ProjectIDs, metaPtr : [pointer : Cids]]]

RoundReads == {"applicationMetaPtr", "applicationsStartTime",
               "applicationsEndTime", "roundStartTime", "roundEndTime"}

RoundEvents ==
    [name : {"RoundCreated"}, address : Factories, blockNumber : NextBlocks,
     args : [roundAddress : RoundAddresses, ownedBy : Programs,
             roundImplementation : Implementations]]

\* The contract each access-control contract name is deployed at.
ContractAddress(contractName) ==
    CASE contractName = "AlloV1/ProgramImplementation/V1" -> "program1"
      [] contractName = "AlloV1/RoundImplementation/V1" -> "round1"
      [] contractName = "AlloV1/RoundImplementation/V2" -> "round2"

RoleEvents ==
    {ev \in [name : {"RoleGranted", "RoleRevoked"}, contractName : RoleContracts,
             address : RoundAddresses \cup Programs, blockNumber : NextBlocks,
             args : [role : RoleConstants, account : Accounts]] :
        ev.address = ContractAddress(ev.contractName)}

ProgramEvents ==
    [name : {"ProgramCreated"}, contractName : {"AlloV1/ProgramFactory/V1"},
     address : Factories, blockNumber : NextBlocks,
     args : [programContractAddress : Programs,
             programImplementation : Implementations]]

\* The events handleEvent has no case for.
DefaultEvents == RoleEvents \cup ProgramEvents

\* The full ids round applications and votes name.
AppliedProjects == {fullProjectId(c, 1, "registryA") : c \in ChainIds}

ApplicationEvents ==
    [name : {"NewProjectApplication"}, address : RoundAddresses,
     blockNumber : NextBlocks, args : [project : AppliedProjects]]

StatusEvents ==
    [name : {"ProjectsMetaPtrUpdated"}, address : RoundAddresses,
     blockNumber : NextBlocks, args : [newMetaPtr : [pointer : Cids]]]

VotingContractEvents ==
    [name : {"VotingContractCreated"}, address : Factories,
     blockNumber : NextBlocks, args : [votingContractAddress : Strategies]]

VotedEvents ==
    [name : {"Voted"}, address : Strategies, blockNumber : NextBlocks,
     transactionHash : TxHashes,
     args : [projectId : AppliedProjects, roundAddress : RoundAddresses,
             voter : Accounts, grantAddress : Grants, token : Tokens,
             amount : Amounts]]

\* What the round contract at `address` answers to a read of `functionName`.
ChainValue(address, functionName) ==
    CASE functionName = "applicationMetaPtr" ->
             [pointer |-> IF address = "round1" THEN "cid1" ELSE "cid2"]
      [] functionName = "applicationsStartTime" -> 100
      [] functionName = "applicationsEndTime" -> 200
      [] functionName = "roundStartTime" -> IF address = "round1" THEN 150 ELSE 160
      [] functionName = "roundEndTime" -> 300

\* No "RoundCreated" call in progress.
NoCall ==
    [pc |-> "idle", ev |-> NoEvent, settled |-> <<>>, rejected |-> {},
     results |-> <<>>, locals |-> <<>>, k |-> 0]

(* Passport provider (src/src/passport/index.ts) *)

ScorerId == 1                 \* config.scorerId
Communities == {1, 2}
AddressKeys == {"0xAb", "0xab", "0xCD", "0xcd"}
QueryAddresses == {"0xAb", "0xab", "0xcd"}
Queries == {<<"0xab">>, <<"0xAb", "0xcd">>, <<"0xab", "0xab">>}

\* One line of the remote dump: {passport: {address, community}, ...rest}.
DumpLine(address, community, score) ==
    [address |-> address, community |-> community, score |-> score]

Dumps == { << DumpLine("0xAb", 1, "s1"), DumpLine("0xab", 1, "s2"),
              DumpLine("0xCD", 2, "s3") >>,
           << DumpLine("0xab", 1, "s1"), DumpLine("0xAb", 1, "s2") >> }

NoTimeout == 0                \* pollTimeoutId: null
NotFound == [address |-> "", score |-> ""]    \* no record under the key
EmptyDb == [k \in AddressKeys |-> NotFound]

Call(op, result, error, arg, value) ==
    [op |-> op, result |-> result, error |-> error, arg |-> arg, value |-> value]

----------------------------------------------------------------------------
Init ==
    /\ chainId \in ChainIds
    /\ projects = <<>>
    /\ rounds = <<>>
    /\ subscriptions = {}
    /\ cache = [c \in Cids |-> Undefined]
    /\ nEvents = 0
    /\ lastEvent = NoEvent
    /\ outcome = "ok"
    /\ changesets = <<>>
    /\ applications = <<>>
    /\ votes = <<>>
    /\ priceCache = {}
    /\ roundCall = NoCall
    /\ state = [type |-> "empty", pollTimeoutId |-> NoTimeout, db |-> FALSE]
    /\ scores = EmptyDb
    /\ timers = {}
    /\ tasks = {}
    /\ lastCall = Call("none", "ok", "", "", "")
    /\ nCalls = 0
    /\ pollTimeoutId = NoTimeout
    /\ pricesFile = <<>>
    /\ priceTimers = {}
    /\ updates = {}
    /\ wallClock = 0
    /\ lastPriceCall = "none"
    /\ lastUpdate = "none"
    /\ nPriceCalls = 0

\* Bookkeeping common to every handleEvent call.  The handler is declared
\* without a return value: its caller receives no changeset list.
Recorded(ev) ==
    /\ nEvents' = nEvents + 1
    /\ lastEvent' = ev
    /\ changesets' = <<>>
    /\ UNCHANGED chainId
    /\ UNCHANGED passportVars
    /\ UNCHANGED priceVars

\* A call of one of the project, round or default cases: they touch none of
\* the application and vote collections.
Delivered(ev) ==
    /\ nEvents < MaxEvents
    /\ Recorded(ev)
    /\ UNCHANGED voteVars
    /\ UNCHANGED roundCall

\* case "ProjectCreated"
CaseProjectCreated(ev) ==
    /\ Delivered(ev)
    /\ projects' = Append(projects,
           [fullId |-> fullProjectId(chainId, ev.args.projectID, ev.address),
            id |-> ev.args.projectID,
            metaPtr |-> Null,
            metadata |-> Undefined,
            votesUSD |-> 0,
            votes |-> 0,
            owners |-> <<ev.args.owner>>])
    /\ outcome' = "ok"
    /\ UNCHANGED <<rounds, subscriptions, cache>>

\* A callback of case "MetadataUpdated" that recomputes the full id from the
\* stored number alone instead of carrying the stored one over.
UpdateMetadataRekeying(project, pointer, metadata) ==
    [project EXCEPT !.metaPtr = pointer, !.metadata = metadata,
                    !.fullId = fullProjectId(0, project.id, Null)]

\* The callback of case "MetadataUpdated".
UpdateMetadata(project, pointer, metadata) ==
    [project EXCEPT !.metaPtr = pointer, !.metadata = metadata]

\* case "MetadataUpdated": the fetch is awaited before the try block, so a
\* failed fetch rejects the call; updateById on an id the collection does not
\* hold throws inside the try block and is caught and logged.
CaseMetadataUpdated(ev) ==
    \E res \in IpfsOutcomes(ev.args.metaPtr.pointer) :
        /\ Delivered(ev)
        /\ cache' = CacheAfter(ev.args.metaPtr.pointer, res)
        /\ IF res = Failed
           THEN /\ outcome' = "error"
                /\ UNCHANGED projects
           ELSE /\ outcome' = "ok"
                /\ IF IndexesById(projects, ev.args.projectID) = {}
                   THEN UNCHANGED projects
                   ELSE \E i \in IndexesById(projects, ev.args.projectID) :
                            projects' = [projects EXCEPT ![i] =
                                UpdateMetadata(@, ev.args.metaPtr.pointer, res)]
        /\ UNCHANGED <<rounds, subscriptions>>

\* The callback of case "OwnerAdded".
AddOwner(owners, owner) == Append(owners, owner)

\* The callback of case "OwnerRemoved".
FilterOwners(owners, owner) == SelectSeq(owners, LAMBDA o : o = owner)

\* case "OwnerAdded": updateById outside any try block, so an id the
\* collection does not hold rejects the call.
CaseOwnerAdded(ev) ==
    /\ Delivered(ev)
    /\ IF IndexesById(projects, ev.args.projectID) = {}
       THEN /\ outcome' = "error"
            /\ UNCHANGED projects
       ELSE /\ outcome' = "ok"
            /\ \E i \in IndexesById(projects, ev.args.projectID) :
                   projects' = [projects EXCEPT ![i] =
                       [@ EXCEPT !.owners = AddOwner(@, ev.args.owner)]]
    /\ UNCHANGED <<rounds, subscriptions, cache>>

\* case "OwnerRemoved": the same lookup with the filtering callback.
CaseOwnerRemoved(ev) ==
    /\ Delivered(ev)
    /\ IF IndexesById(projects, ev.args.projectID) = {}
       THEN /\ outcome' = "error"
            /\ UNCHANGED projects
       ELSE /\ outcome' = "ok"
            /\ \E i \in IndexesById(projects, ev.args.projectID) :
                   projects' = [projects EXCEPT ![i] =
                       [@ EXCEPT !.owners = FilterOwners(@, ev.args.owner)]]
    /\ UNCHANGED <<rounds, subscriptions, cache>>

\* case "RoundCreated": subscribe first, start the five contract reads, await
\* the application pointer, fetch its content, await the other reads, insert.
\* The reads are awaited one after the other, so the first awaited read that
\* rejects (`failed`, "none" when all resolve) is the one that ends the call.
CaseRoundCreated(ev) ==
    \E failed \in RoundReads \cup {"none"} :
    \E res \in IpfsOutcomes(ChainValue(ev.args.roundAddress, "applicationMetaPtr").pointer) :
        /\ Delivered(ev)
        /\ subscriptions' = subscriptions \cup {ev.args.roundAddress}
        /\ IF failed = "applicationMetaPtr"
           THEN /\ outcome' = "error"
                /\ UNCHANGED <<rounds, cache>>
           ELSE /\ cache' = CacheAfter(
                       ChainValue(ev.args.roundAddress, "applicationMetaPtr").pointer, res)
                /\ IF res = Failed \/ failed # "none"
                   THEN /\ outcome' = "error"
                        /\ UNCHANGED rounds
                   ELSE /\ outcome' = "ok"
                        /\ rounds' = Append(rounds,
                               [id |-> ev.args.roundAddress,
                                votesUSD |-> 0,
                                votes |-> 0,
                                implementationAddress |-> ev.args.roundImplementation,
                                applicationMetaPtr |->
                                    ChainValue(ev.args.roundAddress, "applicationMetaPtr"),
                                applicationMetadata |-> res,
                                applicationsStartTime |-> ToString(ChainValue(ev.args.roundAddress, "applicationsStartTime")),
                                applicationsEndTime |-> ToString(ChainValue(ev.args.roundAddress, "applicationsEndTime")),
                                roundStartTime |-> ToString(ChainValue(ev.args.roundAddress, "roundStartTime")),
                                roundEndTime |-> ToString(ChainValue(ev.args.roundAddress, "roundEndTime"))])
        /\ UNCHANGED projects

\* default: every event name without a case of its own falls through the
\* switch; nothing is read and nothing is written.
CaseDefault(ev) ==
    /\ Delivered(ev)
    /\ outcome' = "ok"
    /\ UNCHANGED <<projects, rounds, subscriptions, cache>>

----------------------------------------------------------------------------
(* Applications and votes *)

\* A call of one of the application and vote cases.
DeliveredVote(ev) ==
    /\ nEvents < MaxVoteEvents
    /\ Recorded(ev)
    /\ UNCHANGED roundCall

\* Positions of the documents of rounds/<round>/projects whose id is `id`.
ApplicationIndexes(apps, round, id) ==
    {i \in 1..Len(apps) : apps[i].collection = round /\ apps[i].id = id}

\* findOneWhere returns the first document that matches.
FirstIndex(indexes) == CHOOSE i \in indexes : \A j \in indexes : i <= j

\* case "NewProjectApplication": the application is keyed by the full
\* project id and carries the number of the first project stored under it.
CaseNewProjectApplication(ev) ==
    /\ DeliveredVote(ev)
    /\ LET found == {i \in 1..Len(projects) : projects[i].fullId = ev.args.project}
       IN applications' = Append(applications,
              [collection |-> ev.address,
               id |-> ev.args.project,
               projectId |-> IF found = {} THEN Null
                             ELSE projects[FirstIndex(found)].id,
               roundId |-> ev.address,
               status |-> Null,
               payoutAddress |-> Undefined])
    /\ outcome' = "ok"
    /\ UNCHANGED <<projects, rounds, subscriptions, cache, votes, priceCache>>

\* The application list an ipfs document decodes to.  An entry's id is
\* "<full project id>-<round address>", kept as its two parts.
ApplicationList(content) ==
    CASE content = "meta1" ->
             << [id |-> <<fullProjectId(1, 1, "registryA"), "round1">>,
                 status |-> "APPROVED", payoutAddress |-> "acct1"] >>
      [] content = "meta2" ->
             << [id |-> <<fullProjectId(1, 1, "registryA"), "round1">>,
                 status |-> "REJECTED", payoutAddress |-> "acct2"] >>

\* projectApp.id.split("-")[0]
SplitId(id) == id[1]

\* The for loop of case "ProjectsMetaPtrUpdated": one updateById per entry,
\* in order; the first entry without an application ends the loop with a
\* rejection and leaves the earlier updates in place.
RECURSIVE ApplyStatuses(_, _, _)
ApplyStatuses(apps, round, list) ==
    IF list = <<>>
    THEN {[applications |-> apps, outcome |-> "ok"]}
    ELSE LET projectApp == Head(list)
             indexes == ApplicationIndexes(apps, round, SplitId(projectApp.id))
         IN IF indexes = {}
            THEN {[applications |-> apps, outcome |-> "error"]}
            ELSE UNION {ApplyStatuses(
                            [apps EXCEPT ![i] =
                                [@ EXCEPT !.status = projectApp.status,
                                          !.payoutAddress = projectApp.payoutAddress]],
                            round, Tail(list)) : i \in indexes}

\* case "ProjectsMetaPtrUpdated"
CaseProjectsMetaPtrUpdated(ev) ==
    \E res \in IpfsOutcomes(ev.args.newMetaPtr.pointer) :
        /\ DeliveredVote(ev)
        /\ cache' = CacheAfter(ev.args.newMetaPtr.pointer, res)
        /\ IF res = Failed
           THEN /\ outcome' = "error"
                /\ UNCHANGED applications
           ELSE \E r \in ApplyStatuses(applications, ev.address, ApplicationList(res)) :
                    /\ applications' = r.applications
                    /\ outcome' = r.outcome
        /\ UNCHANGED <<projects, rounds, subscriptions, votes, priceCache>>

\* case "VotingContractCreated"
CaseVotingContractCreated(ev) ==
    /\ DeliveredVote(ev)
    /\ subscriptions' = subscriptions \cup {ev.args.votingContractAddress}
    /\ outcome' = "ok"
    /\ UNCHANGED <<projects, rounds, cache, applications, votes, priceCache>>

\* String.prototype.toLowerCase, on the strings of the model
toLowerCase(token) ==
    CASE token = "0xTOKEN" -> "0xtoken"
      [] token = "0xAb" -> "0xab"
      [] token = "0xCD" -> "0xcd"
      [] OTHER -> token

\* The stored round times are decimal strings; multiplying one by 1000
\* converts it back to the number it spells.
ToNumber(str) ==
    CHOOSE n \in {ChainValue(a, f) : a \in RoundAddresses,
                  f \in RoundReads \ {"applicationMetaPtr"}} : ToString(n) = str

Min(a, b) == IF a <= b THEN a ELSE b

\* getPrice(token, chainId, fromTimestamp, toTimestamp): the average price
\* the price service gives for the period.
PriceFeed(token, chain, fromTimestamp, toTimestamp) ==
    IF toTimestamp < ChainValue("round1", "roundEndTime") THEN 2 ELSE 3

\* A cache key that leaves the end of the price period out.
PriceKeyWithoutPeriodEnd(token, chain, fromTimestamp, toTimestamp) ==
    <<"price", token, chain, 0, fromTimestamp>>

PriceKey(token, chain, fromTimestamp, toTimestamp) ==
    <<"price", token, chain, toTimestamp, fromTimestamp>>

\* cache.lazy in convertToUSD, on a cache holding `cached`: the cached
\* price when the key has one, otherwise the service's answer (or its
\* failure, -1).
PriceOutcomesIn(cached, token, chain, fromTimestamp, toTimestamp) ==
    LET hits == {e \in cached :
                    e.key = PriceKey(token, chain, fromTimestamp, toTimestamp)}
    IN IF hits # {}
       THEN {e.price : e \in hits}
       ELSE {PriceFeed(token, chain, fromTimestamp, toTimestamp), -1}

\* Number(formatUnits(amount, 18)) * price, for an amount of whole tokens.
convertToUSD(amount, price) == amount * price

\* amount.toString(): the amount in wei.
AmountString(amount) == ToString(amount) \o "000000000000000000"

\* solidityKeccak256(["string"], [`${transactionHash}-${voter}-${grantAddress}`])
VoteId(ev) == <<"keccak256", ev.transactionHash, ev.args.voter, ev.args.grantAddress>>

Vote(ev, amountUSD) ==
    [id |-> VoteId(ev),
     token |-> ev.args.token,
     voter |-> ev.args.voter,
     grantAddress |-> ev.args.grantAddress,
     amount |-> AmountString(ev.args.amount),
     amountUSD |-> amountUSD,
     fullProjectId |-> ev.args.projectId,
     roundAddress |-> ev.args.roundAddress,
     projectApplicationId |-> <<ev.args.projectId, ev.args.roundAddress>>]

\* What case "Voted" can do with event `ev` when the wall clock reads `now`
\* and the cache holds the prices `cached`: the set of (outcome, votes, price
\* cache) it can end with.
VotedOutcomesIn(cached, ev, now) ==
    LET apps == ApplicationIndexes(applications, ev.args.roundAddress, ev.args.projectId)
        found == IndexesById(rounds, ev.args.roundAddress)
    IN IF \/ apps = {}
          \/ applications[FirstIndex(apps)].status # "APPROVED"
          \/ found = {}
       THEN {[outcome |-> "ok", votes |-> votes, priceCache |-> cached]}
       ELSE LET round == rounds[FirstIndex(found)]
                startDate == ToNumber(round.roundStartTime) * 1000
                endDate == ToNumber(round.roundEndTime) * 1000
                token == toLowerCase(ev.args.token)
                fromTimestamp == startDate \div 1000
                toTimestamp == Min(now, endDate) \div 1000
            IN {IF price = -1
                THEN [outcome |-> "error", votes |-> votes, priceCache |-> cached]
                ELSE [outcome |-> "ok",
                      votes |-> votes \o
                          << [collection |-> <<"votes", ev.args.roundAddress>>,
                              vote |-> Vote(ev, convertToUSD(ev.args.amount, price))],
                             [collection |-> <<"projectVotes", ev.args.roundAddress,
                                               ev.args.projectId>>,
                              vote |-> Vote(ev, convertToUSD(ev.args.amount, price))] >>,
                      priceCache |-> cached \cup
                          {[key |-> PriceKey(token, chainId, fromTimestamp, toTimestamp),
                            price |-> price]}] :
                price \in PriceOutcomesIn(cached, token, chainId,
                                          fromTimestamp, toTimestamp)}

VotedOutcomes(ev, now) == VotedOutcomesIn(priceCache, ev, now)

\* A "Voted" case that inserts the vote into the round's votes only.
CaseVotedOneCollection(ev) ==
    \E now \in Clock :
    \E r \in VotedOutcomes(ev, now) :
        /\ DeliveredVote(ev)
        /\ votes' = SubSeq(r.votes, 1, Min(Len(r.votes), Len(votes) + 1))
        /\ priceCache' = r.priceCache
        /\ outcome' = r.outcome
        /\ UNCHANGED <<projects, rounds, subscriptions, cache, applications>>

\* case "Voted": `now` is new Date(), read when the guards have passed.
CaseVoted(ev) ==
    \E now \in Clock :
    \E r \in VotedOutcomes(ev, now) :
        /\ DeliveredVote(ev)
        /\ votes' = r.votes
        /\ priceCache' = r.priceCache
        /\ outcome' = r.outcome
        /\ UNCHANGED <<projects, rounds, subscriptions, cache, applications>>

----------------------------------------------------------------------------
(* case "RoundCreated", await by await.  The five contract reads are       *)
(* started together; each settles (resolves or rejects) at a moment of its *)
(* own, while the handler awaits them in the order of the source.          *)

\* The reads awaited after the metadata fetch, in the order of the awaits.
AwaitOrder == <<"applicationsStartTime", "applicationsEndTime",
                "roundStartTime", "roundEndTime">>

\* let applicationMetaPtr = contract.applicationMetaPtr(); ...: every local
\* variable holds the promise of its read until the await reassigns it.
PromisesOf(reads) == [r \in reads \cup {"applicationMetadata"} |-> "promise"]

RoundCreatedBegins ==
    \E ev \in RoundEvents :
        /\ roundCall.pc = "idle"
        /\ nEvents < MaxRoundCalls
        /\ subscriptions' = subscriptions \cup {ev.args.roundAddress}
        /\ roundCall' = [pc |-> "awaitPointer", ev |-> ev, settled |-> <<>>,
                         rejected |-> {}, results |-> <<>>,
                         locals |-> PromisesOf(RoundReads), k |-> 1]
        /\ UNCHANGED <<chainId, projects, rounds, cache, nEvents, lastEvent,
                       outcome, changesets, applications, votes, priceCache, passportVars, priceVars>>

\* One of the pending reads resolves with the contract's answer or rejects.
ReadSettles ==
    \E r \in RoundReads : \E resolved \in BOOLEAN :
        /\ roundCall.pc # "idle"
        /\ \A i \in 1..Len(roundCall.settled) : roundCall.settled[i] # r
        /\ roundCall' =
              [roundCall EXCEPT
                  !.settled = Append(@, r),
                  !.rejected = IF resolved THEN @ ELSE @ \cup {r},
                  !.results = IF resolved
                              THEN (r :> ChainValue(roundCall.ev.args.roundAddress, r)) @@ @
                              ELSE @]
        /\ UNCHANGED <<chainId, projects, rounds, subscriptions, cache, nEvents,
                       lastEvent, outcome, changesets, applications, votes,
                       priceCache, passportVars, priceVars>>

\* An await resumes once the promise it waits for has settled.
HasSettled(call, read) == \E i \in 1..Len(call.settled) : call.settled[i] = read

\* The call ends: it resolves ("ok") or rejects ("error").  Of the ended
\* call only the order in which its reads settled is kept on record.
RoundCallEnds(result) ==
    /\ Recorded(roundCall.ev)
    /\ outcome' = result
    /\ UNCHANGED <<projects, subscriptions, applications, votes, priceCache>>

\* await applicationMetaPtr
AwaitPointer ==
    /\ roundCall.pc = "awaitPointer"
    /\ HasSettled(roundCall, "applicationMetaPtr")
    /\ IF "applicationMetaPtr" \in roundCall.rejected
       THEN /\ RoundCallEnds("error")
            /\ roundCall' = [NoCall EXCEPT !.settled = roundCall.settled]
       ELSE /\ roundCall' = [roundCall EXCEPT
                   !.pc = "fetching",
                   !.locals = [@ EXCEPT !["applicationMetaPtr"] =
                                  roundCall.results["applicationMetaPtr"]]]
            /\ UNCHANGED <<chainId, projects, subscriptions, nEvents, lastEvent,
                           outcome, changesets, applications, votes, priceCache, passportVars, priceVars>>
    /\ UNCHANGED <<rounds, cache>>

\* await cachedIpfs(pointer, indexer.cache)
FetchCompletes ==
    /\ roundCall.pc = "fetching"
    /\ \E res \in IpfsOutcomes(roundCall.locals["applicationMetaPtr"].pointer) :
          /\ cache' = CacheAfter(roundCall.locals["applicationMetaPtr"].pointer, res)
          /\ IF res = Failed
             THEN /\ RoundCallEnds("error")
                  /\ roundCall' = [NoCall EXCEPT !.settled = roundCall.settled]
             ELSE /\ roundCall' = [roundCall EXCEPT
                         !.pc = "awaitRead",
                         !.locals = [@ EXCEPT !["applicationMetadata"] = res]]
                  /\ UNCHANGED <<chainId, projects, subscriptions, nEvents,
                                 lastEvent, outcome, changesets, applications,
                                 votes, priceCache, passportVars, priceVars>>
    /\ UNCHANGED rounds

\* x = (await x).toString(), for the four times in turn
AwaitRead ==
    /\ roundCall.pc = "awaitRead"
    /\ roundCall.k <= Len(AwaitOrder)
    /\ HasSettled(roundCall, AwaitOrder[roundCall.k])
    /\ IF AwaitOrder[roundCall.k] \in roundCall.rejected
       THEN /\ RoundCallEnds("error")
            /\ roundCall' = [NoCall EXCEPT !.settled = roundCall.settled]
       ELSE /\ roundCall' = [roundCall EXCEPT
                   !.k = @ + 1,
                   !.locals = [@ EXCEPT ![AwaitOrder[roundCall.k]] =
                                  ToString(roundCall.results[AwaitOrder[roundCall.k]])]]
            /\ UNCHANGED <<chainId, projects, subscriptions, nEvents, lastEvent,
                           outcome, changesets, applications, votes, priceCache, passportVars, priceVars>>
    /\ UNCHANGED <<rounds, cache>>

\* An insert that does not wait for the last of the awaits.
AllAwaitedButLast(call) == call.k >= Len(AwaitOrder)

\* The insert is reached when every await before it has resumed.
AllAwaited(call) == call.k > Len(AwaitOrder)

\* await db.collection("rounds").insert({...})
InsertRound ==
    /\ roundCall.pc = "awaitRead"
    /\ AllAwaited(roundCall)
    /\ rounds' = Append(rounds,
           [id |-> roundCall.ev.args.roundAddress,
            votesUSD |-> 0,
            votes |-> 0,
            implementationAddress |-> roundCall.ev.args.roundImplementation,
            applicationMetaPtr |-> roundCall.locals["applicationMetaPtr"],
            applicationMetadata |-> roundCall.locals["applicationMetadata"],
            applicationsStartTime |-> roundCall.locals["applicationsStartTime"],
            applicationsEndTime |-> roundCall.locals["applicationsEndTime"],
            roundStartTime |-> roundCall.locals["roundStartTime"],
            roundEndTime |-> roundCall.locals["roundEndTime"]])
    /\ RoundCallEnds("ok")
    /\ roundCall' = [NoCall EXCEPT !.settled = roundCall.settled]
    /\ UNCHANGED cache

NextRound ==
    \/ RoundCreatedBegins
    \/ ReadSettles
    \/ AwaitPointer
    \/ FetchCompletes
    \/ AwaitRead
    \/ InsertRound

SpecRound == Init /\ [][NextRound]_vars

----------------------------------------------------------------------------
\* switch (event.name)
HandleEvent(ev) ==
    CASE ev.name = "ProjectCreated" -> CaseProjectCreated(ev)
      [] ev.name = "MetadataUpdated" -> CaseMetadataUpdated(ev)
      [] ev.name = "OwnerAdded" -> CaseOwnerAdded(ev)
      [] ev.name = "OwnerRemoved" -> CaseOwnerRemoved(ev)
      [] ev.name = "RoundCreated" -> CaseRoundCreated(ev)
      [] ev.name = "NewProjectApplication" -> CaseNewProjectApplication(ev)
      [] ev.name = "ProjectsMetaPtrUpdated" -> CaseProjectsMetaPtrUpdated(ev)
      [] ev.name = "VotingContractCreated" -> CaseVotingContractCreated(ev)
      [] ev.name = "Voted" -> CaseVoted(ev)
      [] OTHER -> CaseDefault(ev)

----------------------------------------------------------------------------
(* The chain watcher's deliveries, one action per event name *)

ProjectCreated ==
    \E ev \in ProjectEvents("ProjectCreated") : HandleEvent(ev)

MetadataUpdated ==
    \E ev \in MetadataEvents : HandleEvent(ev)

OwnerAdded ==
    \E ev \in ProjectEvents("OwnerAdded") : HandleEvent(ev)

OwnerRemoved ==
    \E ev \in ProjectEvents("OwnerRemoved") : HandleEvent(ev)

RoundCreated ==
    \E ev \in RoundEvents : HandleEvent(ev)

\* A default branch that rejects event names it has no case for.
DefaultCaseRejecting ==
    \E ev \in DefaultEvents :
        /\ Delivered(ev)
        /\ outcome' = "error"
        /\ UNCHANGED <<projects, rounds, subscriptions, cache>>

DefaultCase ==
    \E ev \in DefaultEvents : HandleEvent(ev)

\* After a reorg or a restart the watcher delivers an event it has already
\* delivered: the handler runs again on the very same event record.
Replay ==
    /\ lastEvent # NoEvent
    /\ outcome = "ok"
    /\ HandleEvent(lastEvent)

Next ==
    \/ ProjectCreated
    \/ MetadataUpdated
    \/ OwnerAdded
    \/ OwnerRemoved
    \/ RoundCreated
    \/ DefaultCase
    \/ Replay

Spec == Init /\ [][Next]_vars

(* The round, application and vote cases on their own *)

NewProjectApplication ==
    \E ev \in ApplicationEvents : HandleEvent(ev)

ProjectsMetaPtrUpdated ==
    \E ev \in StatusEvents : HandleEvent(ev)

VotingContractCreated ==
    \E ev \in VotingContractEvents : HandleEvent(ev)

Voted ==
    \E ev \in VotedEvents : HandleEvent(ev)

NextVotes ==
    \/ ProjectCreated
    \/ RoundCreated
    \/ NewProjectApplication
    \/ ProjectsMetaPtrUpdated
    \/ VotingContractCreated
    \/ Voted

SpecVotes == Init /\ [][NextVotes]_vars

----------------------------------------------------------------------------
(* The passport provider.  start() and poll() are async: each runs up to   *)
(* its next await in one step, and other calls can come in between.        *)

\* A stop() that only refuses in the empty state.
CanStopUnlessEmpty(s) == s.type # "empty"

\* if (state.type !== "ready") throw new Error("Service not started")
CanStop(s) == s.type = "ready"

\* start(opts): the state check, then await access(config.dbPath)
start ==
    \E watch \in BOOLEAN :
        /\ nCalls < MaxCalls
        /\ nCalls' = nCalls + 1
        /\ IF state.type # "empty"
           THEN /\ lastCall' = Call("start", "error", "Service not in empty state", "", "")
                /\ UNCHANGED tasks
           ELSE /\ lastCall' = Call("start", "pending", "", "", "")
                /\ tasks' = tasks \cup {[id |-> nCalls + 1, op |-> "start",
                                         pc |-> "access", watch |-> watch,
                                         db |-> TRUE, dump |-> <<>>]}
        /\ UNCHANGED <<state, scores, timers>>
        /\ UNCHANGED <<handlerVars, priceVars>>

\* access settles.  Dataset found: starting, then ready (and the first poll
\* scheduled) without a further await.  Not found: starting, and
\* runFullUpdate runs up to its fetch.  Once a start() has got to ready the
\* dataset is on disk, so a later access finds it.
accessSettles ==
    \E t \in tasks : \E found \in BOOLEAN :
        /\ t.pc = "access"
        /\ found \/ state.type \in {"empty", "starting"}
        /\ IF found
           THEN /\ state' = [type |-> "ready",
                             pollTimeoutId |-> IF t.watch THEN t.id ELSE NoTimeout,
                             db |-> TRUE]
                /\ timers' = IF t.watch THEN timers \cup {t.id} ELSE timers
                /\ tasks' = tasks \ {t}
                /\ lastCall' = Call("start", "ok", "", "", "")
           ELSE /\ state' = [type |-> "starting", pollTimeoutId |-> NoTimeout,
                             db |-> TRUE]
                /\ tasks' = (tasks \ {t}) \cup {[t EXCEPT !.pc = "fetch"]}
                /\ UNCHANGED <<timers, lastCall>>
        /\ UNCHANGED <<scores, nCalls>>
        /\ UNCHANGED <<handlerVars, priceVars>>

\* What the fetch of the remote dump can settle to.
FetchOutcomes ==
    {[kind |-> "rejected", dump |-> <<>>], [kind |-> "null body", dump |-> <<>>]}
    \cup {[kind |-> "body", dump |-> d] : d \in Dumps}

\* await fetch(...) in runFullUpdate; a rejected fetch or a null body ends
\* the start() or poll() that called it with an error.
fetchSettles ==
    \E t \in tasks : \E res \in FetchOutcomes :
        /\ t.pc = "fetch"
        /\ IF res.kind = "body"
           THEN /\ tasks' = (tasks \ {t}) \cup
                              {[t EXCEPT !.pc = "stream", !.dump = res.dump]}
                /\ UNCHANGED lastCall
           ELSE /\ tasks' = tasks \ {t}
                /\ lastCall' = Call(t.op, "error",
                                    IF res.kind = "rejected" THEN "fetch failed"
                                    ELSE "Passport dump is empty", "", "")
        /\ UNCHANGED <<state, scores, timers, nCalls>>
        /\ UNCHANGED <<handlerVars, priceVars>>

\* on("data"): a line of the configured community is queued, and the queue
\* worker puts it under the lower-cased address.
WriteLine(db, line) ==
    IF line.community = ScorerId
    THEN [db EXCEPT ![toLowerCase(toLowerCase(line.address))] =
             [address |-> line.address, score |-> line.score]]
    ELSE db

\* The queue has concurrency 1: the lines are written in dump order.
RECURSIVE WriteLines(_, _)
WriteLines(db, lines) ==
    IF lines = <<>> THEN db
    ELSE WriteLines(WriteLine(db, Head(lines)), Tail(lines))

\* The stream of the dump ends after all its lines, or fails after the first
\* n of them.  When it ends, start() goes on to ready and poll() schedules
\* the next poll; neither looks at the state again.
streamSettles ==
    \E t \in tasks : \E n \in 0..Len(t.dump) :
        /\ t.pc = "stream"
        /\ tasks' = tasks \ {t}
        /\ scores' = IF t.db THEN WriteLines(scores, SubSeq(t.dump, 1, n))
                     ELSE scores
        /\ IF n < Len(t.dump)
           THEN /\ lastCall' = Call(t.op, "error", "stream error", "", "")
                /\ UNCHANGED <<state, timers>>
           ELSE /\ lastCall' = Call(t.op, "ok", "", "", "")
                /\ IF t.op = "start"
                   THEN /\ state' = [state EXCEPT
                                        !.type = "ready",
                                        !.pollTimeoutId = IF t.watch THEN t.id ELSE @]
                        /\ timers' = IF t.watch THEN timers \cup {t.id} ELSE timers
                   ELSE /\ timers' = timers \cup {t.id}
                        /\ UNCHANGED state
        /\ UNCHANGED nCalls
        /\ UNCHANGED <<handlerVars, priceVars>>

\* A scheduled timeout fires and runs poll(): the state check, then
\* runFullUpdate up to its fetch.
poll ==
    \E id \in timers :
        /\ nCalls < MaxCalls
        /\ nCalls' = nCalls + 1
        /\ timers' = timers \ {id}
        /\ IF state.type # "ready"
           THEN /\ lastCall' = Call("poll", "error", "Service not started", "", "")
                /\ UNCHANGED tasks
           ELSE /\ lastCall' = Call("poll", "pending", "", "", "")
                /\ tasks' = tasks \cup {[id |-> nCalls + 1, op |-> "poll",
                                         pc |-> "fetch", watch |-> TRUE,
                                         db |-> state.db, dump |-> <<>>]}
        /\ UNCHANGED <<state, scores>>
        /\ UNCHANGED <<handlerVars, priceVars>>

\* stop()
stop ==
    /\ nCalls < MaxCalls
    /\ nCalls' = nCalls + 1
    /\ IF ~CanStop(state)
       THEN /\ lastCall' = Call("stop", "error", "Service not started", "", "")
            /\ UNCHANGED <<state, timers>>
       ELSE /\ lastCall' = Call("stop", "ok", "", "", "")
            /\ timers' = timers \ {state.pollTimeoutId}
            /\ state' = [type |-> "stopped", pollTimeoutId |-> NoTimeout,
                         db |-> FALSE]
    /\ UNCHANGED <<scores, tasks>>
    /\ UNCHANGED <<handlerVars, priceVars>>

\* getScoreByAddress(address): db.get(address), not found -> undefined
getScoreByAddress ==
    \E address \in QueryAddresses :
        /\ nCalls < MaxCalls
        /\ nCalls' = nCalls + 1
        /\ lastCall' =
              IF state.type # "ready"
              THEN Call("getScoreByAddress", "error", "Service not started", address, "")
              ELSE IF ~state.db
              THEN Call("getScoreByAddress", "error", "TypeError", address, "")
              ELSE Call("getScoreByAddress", "ok", "", address, scores[address])
        /\ UNCHANGED <<state, scores, timers, tasks>>
        /\ UNCHANGED <<handlerVars, priceVars>>

\* new Map(records.filter(Boolean).map((record) => [record.address, record]))
\* as the set of its (key, value) entries.
ScoreMap(db, addresses) ==
    {[key |-> db[a].address, score |-> db[a]] :
        a \in {x \in {addresses[i] : i \in 1..Len(addresses)} : db[x] # NotFound}}

\* getScoresByAddresses(addresses)
getScoresByAddresses ==
    \E addresses \in Queries :
        /\ nCalls < MaxCalls
        /\ nCalls' = nCalls + 1
        /\ lastCall' =
              IF state.type # "ready"
              THEN Call("getScoresByAddresses", "error", "Service not started",
                        addresses, {})
              ELSE IF ~state.db
              THEN Call("getScoresByAddresses", "error", "TypeError", addresses, {})
              ELSE Call("getScoresByAddresses", "ok", "", addresses,
                        ScoreMap(scores, addresses))
        /\ UNCHANGED <<state, scores, timers, tasks>>
        /\ UNCHANGED <<handlerVars, priceVars>>

NextPassport ==
    \/ start
    \/ accessSettles
    \/ fetchSettles
    \/ streamSettles
    \/ poll
    \/ stop
    \/ getScoreByAddress
    \/ getScoresByAddresses

SpecPassport == Init /\ [][NextPassport]_vars

----------------------------------------------------------------------------
(* The price updater: createPriceUpdater.  Times are counted in half       *)
(* hours, so that hours(1) is 2 and a clock reading can fall inside an     *)
(* hour.  blockCache only remembers block lookups and is left out.         *)

hours(n) == 2 * n

ChunkBy == hours(2)           \* days(90), scaled to the clock of the model

PricesFromTimestamp == 0      \* config.chain.pricesFromTimestamp

BlockTimes == {3}             \* timestamps of the blocks start() may name

PriceTokens == <<[code |-> "TOKA", address |-> "0xTOKEN"],
                 [code |-> "TOKB", address |-> "0xtokb"]>>

Price(token, timestamp) ==
    [token |-> toLowerCase(token.address), code |-> token.code,
     timestamp |-> timestamp]

Update(id, op, watch, toBlock) ==
    [id |-> id, op |-> op, watch |-> watch, toBlock |-> toBlock,
     pc |-> "begin", toDate |-> 0, lastPriceAt |-> 0, timeElapsed |-> 0,
     chunk |-> 1, token |-> 1, failed |-> FALSE]

(* start(opts): the update it awaits is carried out by the steps below. *)
startPrices ==
    \E watch \in BOOLEAN, toBlock \in {"latest", "block"} :
        /\ nPriceCalls < MaxPriceCalls
        /\ toBlock = "block" => \E b \in BlockTimes : b <= wallClock
        /\ Cardinality(updates) < MaxUpdates
        /\ nPriceCalls' = nPriceCalls + 1
        /\ updates' = updates \cup {Update(nPriceCalls + 1, "start", watch, toBlock)}
        /\ lastPriceCall' = "start"
        /\ UNCHANGED <<pollTimeoutId, pricesFile, priceTimers, wallClock, lastUpdate>>
        /\ UNCHANGED <<handlerVars, passportVars>>

(* stop(): clearTimeout of the timeout pollTimeoutId names. *)
stopPrices ==
    /\ priceTimers' = IF pollTimeoutId # NoTimeout
                      THEN priceTimers \ {pollTimeoutId}
                      ELSE priceTimers
    /\ lastPriceCall' = "stop"
    /\ UNCHANGED <<pollTimeoutId, pricesFile, updates, wallClock, lastUpdate,
                   nPriceCalls>>
    /\ UNCHANGED <<handlerVars, passportVars>>

(* A scheduled timeout fires and runs poll, which updates to "latest". *)
pollPrices ==
    \E id \in priceTimers :
        /\ nPriceCalls < MaxPriceCalls
        /\ Cardinality(updates) < MaxUpdates
        /\ nPriceCalls' = nPriceCalls + 1
        /\ priceTimers' = priceTimers \ {id}
        /\ updates' = updates \cup {Update(nPriceCalls + 1, "poll", TRUE, "latest")}
        /\ UNCHANGED <<pollTimeoutId, pricesFile, wallClock, lastPriceCall, lastUpdate>>
        /\ UNCHANGED <<handlerVars, passportVars>>

MaxOf(S) == CHOOSE m \in S : \A x \in S : x <= m

LastPriceAtOfNewest(currentPrices) ==
    MaxOf({currentPrices[i].timestamp : i \in 1..Len(currentPrices)}
          \cup {PricesFromTimestamp})

(* currentPrices.reduce(max(price.timestamp + hours(1), acc), pricesFromTimestamp) *)
LastPriceAt(currentPrices) ==
    MaxOf({currentPrices[i].timestamp + hours(1) : i \in 1..Len(currentPrices)}
          \cup {PricesFromTimestamp})

(* Math.floor((toDate - lastPriceAt) / hours(1)) * hours(1) *)
TimeElapsed(toDate, lastPriceAt) ==
    ((toDate - lastPriceAt) \div hours(1)) * hours(1)

chunkTimeBy(millis, chunkBy) ==
    LET n == IF millis <= 0 THEN 0 ELSE (millis + chunkBy - 1) \div chunkBy
    IN  [k \in 1..n |-> <<(k - 1) * chunkBy, Min(k * chunkBy, millis)>>]

(* getPricesByHour with the block of each price: one price for each hour *)
(* that begins in from..to.                                              *)
NewPrices(token, from, to) ==
    LET n == IF to <= from THEN 0 ELSE (to - from + hours(1) - 1) \div hours(1)
    IN  [k \in 1..n |-> Price(token, from + (k - 1) * hours(1))]

(* update(toBlock) up to its loops: reads the prices file, works out the *)
(* target time and returns when less than an hour has elapsed.  The      *)
(* lookup of a block named by toBlock may throw into the catch.          *)
updateBegins ==
    \E u \in updates, ok \in BOOLEAN :
        /\ u.pc = "begin"
        /\ ok \/ u.toBlock = "block"
        /\ \E toDate \in IF u.toBlock = "latest" THEN {wallClock}
                         ELSE {b \in BlockTimes : b <= wallClock} :
            LET lastPriceAt == LastPriceAt(pricesFile)
                timeElapsed == TimeElapsed(toDate, lastPriceAt)
                chunks == chunkTimeBy(timeElapsed, ChunkBy)
                next ==
                    IF ~ok
                    THEN [u EXCEPT !.pc = "done", !.failed = TRUE]
                    ELSE [u EXCEPT !.toDate = toDate,
                                   !.lastPriceAt = lastPriceAt,
                                   !.timeElapsed = timeElapsed,
                                   !.pc = IF timeElapsed < hours(1)
                                             \/ Len(chunks) = 0
                                          THEN "done" ELSE "fetch"]
            IN  updates' = (updates \ {u}) \cup {next}
        /\ UNCHANGED <<pollTimeoutId, pricesFile, priceTimers, wallClock,
                       lastPriceCall, lastUpdate, nPriceCalls>>
        /\ UNCHANGED <<handlerVars, passportVars>>

(* One turn of the inner loop: the prices of one token for one chunk are *)
(* fetched, their blocks looked up and the prices appended to the file;  *)
(* a throw of the fetch or of a lookup ends the update in the catch.     *)
tokenSettles ==
    \E u \in updates, ok \in BOOLEAN :
        /\ u.pc = "fetch"
        /\ LET timeChunks == chunkTimeBy(u.timeElapsed, ChunkBy)
               chunk == timeChunks[u.chunk]
               token == PriceTokens[u.token]
               newPrices == NewPrices(token, u.lastPriceAt + chunk[1],
                                      u.lastPriceAt + chunk[2])
               next ==
                   IF ~ok
                   THEN [u EXCEPT !.pc = "done", !.failed = TRUE]
                   ELSE IF u.token < Len(PriceTokens)
                   THEN [u EXCEPT !.token = u.token + 1]
                   ELSE IF u.chunk < Len(timeChunks)
                   THEN [u EXCEPT !.chunk = u.chunk + 1, !.token = 1]
                   ELSE [u EXCEPT !.pc = "done"]
           IN  /\ updates' = (updates \ {u}) \cup {next}
               /\ pricesFile' = IF ok THEN pricesFile \o newPrices
                                ELSE pricesFile
        /\ UNCHANGED <<pollTimeoutId, priceTimers, wallClock, lastPriceCall,
                       lastUpdate, nPriceCalls>>
        /\ UNCHANGED <<handlerVars, passportVars>>

(* The update is over and its caller goes on: start schedules poll when *)
(* opts.watch is set, poll schedules itself again.                      *)
updateReturns ==
    \E u \in updates :
        /\ u.pc = "done"
        /\ updates' = updates \ {u}
        /\ lastUpdate' = IF u.failed THEN "failed"
                         ELSE IF u.timeElapsed < hours(1) THEN "returned"
                         ELSE "fetched"
        /\ IF u.op = "poll" \/ u.watch
           THEN /\ pollTimeoutId' = u.id
                /\ priceTimers' = priceTimers \cup {u.id}
           ELSE UNCHANGED <<pollTimeoutId, priceTimers>>
        /\ UNCHANGED <<pricesFile, wallClock, lastPriceCall, nPriceCalls>>
        /\ UNCHANGED <<handlerVars, passportVars>>

(* Half an hour passes. *)
Tick ==
    /\ wallClock < MaxClock
    /\ wallClock' = wallClock + 1
    /\ UNCHANGED <<pollTimeoutId, pricesFile, priceTimers, updates,
                   lastPriceCall, lastUpdate, nPriceCalls>>
    /\ UNCHANGED <<handlerVars, passportVars>>

NextPrices ==
    \/ startPrices
    \/ stopPrices
    \/ pollPrices
    \/ updateBegins
    \/ tokenSettles
    \/ updateReturns
    \/ Tick

SpecPrices == Init /\ [][NextPrices]_vars

----------------------------------------------------------------------------
(* Vocabulary of the claims *)

Range(seq) == {seq[i] : i \in 1..Len(seq)}

\* The project id the last event addresses.
DerivedId(ev) == fullProjectId(chainId, ev.args.projectID, ev.address)

\* A handleEvent call took place in this step.
Handled(name) == nEvents' = nEvents + 1 /\ lastEvent'.name = name

IsRoleEvent(ev) == ev.name \in {"RoleGranted", "RoleRevoked"}

\* The changesets the handler's tests expect.
InsertProjectChangeset(ev) ==
    [type |-> "InsertProject",
     project |-> [chainId |-> chainId,
                  createdAtBlock |-> ev.blockNumber,
                  updatedAtBlock |-> ev.blockNumber,
                  id |-> DerivedId(ev),
                  name |-> "",
                  metadata |-> Null,
                  metadataCid |-> Null,
                  projectNumber |-> ev.args.projectID,
                  registryAddress |-> ev.address,
                  tags |-> <<"allo-v1">>]]

InsertProjectRoleChangeset(ev) ==
    [type |-> "InsertProjectRole",
     projectRole |-> [chainId |-> chainId,
                      projectId |-> DerivedId(ev),
                      address |-> ev.args.owner,
                      role |-> "owner",
                      createdAtBlock |-> ev.blockNumber]]

UpdateProjectChangeset(ev, content) ==
    [type |-> "UpdateProject",
     chainId |-> chainId,
     projectId |-> DerivedId(ev),
     project |-> [metadataCid |-> ev.args.metaPtr.pointer,
                  metadata |-> content]]

RoleGrantedChangeset(ev) ==
    IF IsProgramContract(ev.contractName)
    THEN [type |-> "InsertProjectRole",
          projectRole |-> [chainId |-> chainId,
                           projectId |-> ev.address,
                           address |-> ev.args.account,
                           role |-> ExpectedRole(ev.contractName, ev.args.role),
                           createdAtBlock |-> ev.blockNumber]]
    ELSE [type |-> "InsertRoundRole",
          roundRole |-> [chainId |-> chainId,
                         roundId |-> ev.address,
                         address |-> ev.args.account,
                         role |-> ExpectedRole(ev.contractName, ev.args.role),
                         createdAtBlock |-> ev.blockNumber]]

RoleRevokedChangeset(ev) ==
    IF IsProgramContract(ev.contractName)
    THEN [type |-> "DeleteAllProjectRolesByRoleAndAddress",
          projectRole |-> [chainId |-> chainId,
                           projectId |-> ev.address,
                           address |-> ev.args.account,
                           role |-> ExpectedRole(ev.contractName, ev.args.role)]]
    ELSE [type |-> "DeleteAllRoundRolesByRoleAndAddress",
          roundRole |-> [chainId |-> chainId,
                         roundId |-> ev.address,
                         address |-> ev.args.account,
                         role |-> ExpectedRole(ev.contractName, ev.args.role)]]

----------------------------------------------------------------------------
(* C1: handling ProjectCreated(projectID, owner) yields exactly two        *)
(* changesets, InsertProject for the derived id and then InsertProjectRole *)
(* for the owner, the insert strictly before the role changeset.           *)
C1_ProjectCreatedYieldsInsertThenRole ==
    (lastEvent.name = "ProjectCreated" /\ outcome = "ok") =>
        changesets = <<InsertProjectChangeset(lastEvent),
                       InsertProjectRoleChangeset(lastEvent)>>

(* C2: once OwnerRemoved(projectID, owner) is handled and applied, no      *)
(* owner entry for that project and owner remains, whatever number of      *)
(* OwnerAdded events came before.                                          *)
C2_OwnerRemovedLeavesNoEntry ==
    (lastEvent.name = "OwnerRemoved" /\ outcome = "ok") =>
        \A i \in 1..Len(projects) :
            projects[i].fullId = DerivedId(lastEvent) =>
                lastEvent.args.owner \notin Range(projects[i].owners)

(* C3: OwnerRemoved(projectID, owner) touches only the owner entries of    *)
(* that project for that address: the project's entries for other          *)
(* addresses and every other project are the same after as before.         *)
C3_OwnerRemovedFrame ==
    [][Handled("OwnerRemoved") =>
          /\ Len(projects') = Len(projects)
          /\ \A i \in 1..Len(projects) :
                IF projects[i].fullId = DerivedId(lastEvent')
                THEN SelectSeq(projects'[i].owners,
                               LAMBDA o : o # lastEvent'.args.owner)
                     = SelectSeq(projects[i].owners,
                                 LAMBDA o : o # lastEvent'.args.owner)
                ELSE projects'[i] = projects[i]]_vars

(* C4: when an on-chain read or a content fetch fails while                *)
(* MetadataUpdated or RoundCreated is handled, the call ends in an error   *)
(* and the event leaves nothing behind: no changeset, no inserted or       *)
(* updated row, no contract subscription.                                  *)
C4_FailedReadLeavesNothing ==
    [][((Handled("MetadataUpdated") \/ Handled("RoundCreated"))
          /\ outcome' = "error") =>
          /\ changesets' = <<>>
          /\ projects' = projects
          /\ rounds' = rounds
          /\ subscriptions' = subscriptions]_vars

(* C5: handling MetadataUpdated(projectID, metaPtr) with a successful      *)
(* fetch yields exactly one changeset, UpdateProject for the derived       *)
(* project id, carrying metadataCid = metaPtr.pointer and the fetched      *)
(* content and no other field.                                             *)
C5_MetadataUpdatedYieldsUpdateProject ==
    (lastEvent.name = "MetadataUpdated" /\ outcome = "ok") =>
        changesets = <<UpdateProjectChangeset(lastEvent,
                           cache[lastEvent.args.metaPtr.pointer])>>

(* C6: MetadataUpdated, OwnerAdded and OwnerRemoved address the project    *)
(* whose id ProjectCreated derived from the same (chain, registry,         *)
(* projectID): a project that such an event changes is the project with    *)
(* the event's derived id, never another one.                              *)
C6_UpdateLandsOnDerivedProject ==
    [][(Handled("MetadataUpdated") \/ Handled("OwnerAdded")
          \/ Handled("OwnerRemoved")) =>
          /\ Len(projects') = Len(projects)
          /\ \A i \in 1..Len(projects) :
                projects'[i] # projects[i] =>
                    projects[i].fullId = DerivedId(lastEvent')]_vars

(* C7: handling OwnerAdded(projectID, owner) yields exactly one changeset, *)
(* InsertProjectRole for the derived project id with address = owner,      *)
(* role owner and createdAtBlock = the event's block.                      *)
C7_OwnerAddedYieldsInsertProjectRole ==
    (lastEvent.name = "OwnerAdded" /\ outcome = "ok") =>
        changesets = <<InsertProjectRoleChangeset(lastEvent)>>

(* C8: handling RoleGranted with a role constant of the table yields       *)
(* exactly one insert changeset for the emitting contract's address, the   *)
(* event's account and the role the table gives.                           *)
C8_RoleGrantedYieldsInsertRole ==
    (lastEvent.name = "RoleGranted"
       /\ ExpectedRole(lastEvent.contractName, lastEvent.args.role) # Undefined) =>
        /\ outcome = "ok"
        /\ changesets = <<RoleGrantedChangeset(lastEvent)>>

(* C9: handling RoleRevoked with a role constant of the table yields       *)
(* exactly one bulk-delete changeset for the emitting contract's address,  *)
(* the event's account and the role the table gives.                       *)
C9_RoleRevokedYieldsBulkDelete ==
    (lastEvent.name = "RoleRevoked"
       /\ ExpectedRole(lastEvent.contractName, lastEvent.args.role) # Undefined) =>
        /\ outcome = "ok"
        /\ changesets = <<RoleRevokedChangeset(lastEvent)>>

(* C10: a RoleGranted or RoleRevoked event whose role constant is not in   *)
(* the contract's table is no error: the call completes normally, yields  *)
(* zero changesets and leaves storage as it was.                           *)
C10_UnknownRoleIsNoOp ==
    [][((Handled("RoleGranted") \/ Handled("RoleRevoked"))
          /\ ExpectedRole(lastEvent'.contractName, lastEvent'.args.role) = Undefined) =>
          /\ outcome' = "ok"
          /\ changesets' = <<>>
          /\ projects' = projects
          /\ rounds' = rounds]_vars

C10_Witness ==
    /\ IsRoleEvent(lastEvent)
    /\ ExpectedRole(lastEvent.contractName, lastEvent.args.role) = Undefined
    /\ outcome = "ok"
    /\ projects # <<>>
    /\ rounds # <<>>

----------------------------------------------------------------------------
ZeroAddress == "0x0000000000000000000000000000000000000000"

\* Positions <<i, j>> of the owner entries stored for project `fullId` and
\* `address`.
OwnerEntries(projs, fullId, address) ==
    {ij \in (1..Len(projs)) \X (1..(MaxEvents + 2)) :
        /\ projs[ij[1]].fullId = fullId
        /\ ij[2] <= Len(projs[ij[1]].owners)
        /\ projs[ij[1]].owners[ij[2]] = address}

(* C11: handling ProgramCreated with successful reads yields exactly one   *)
(* changeset, InsertProject with id = the program contract address, tags   *)
(* [allo-v1, program], projectNumber null, the zero registry address and   *)
(* the metadata read through the on-chain pointer.                         *)
C11_ProgramCreatedYieldsInsertProject ==
    lastEvent.name = "ProgramCreated" =>
        /\ outcome = "ok"
        /\ \E cid \in Cids : \E content \in Contents :
              changesets = <<[type |-> "InsertProject",
                              project |-> [chainId |-> chainId,
                                           createdAtBlock |-> lastEvent.blockNumber,
                                           updatedAtBlock |-> lastEvent.blockNumber,
                                           id |-> lastEvent.args.programContractAddress,
                                           name |-> "",
                                           metadata |-> content,
                                           metadataCid |-> cid,
                                           projectNumber |-> Null,
                                           registryAddress |-> ZeroAddress,
                                           tags |-> <<"allo-v1", "program">>]]>>

(* C12: handling RoundCreated with successful reads yields exactly two     *)
(* changesets, InsertRound (id = roundAddress, projectId = ownedBy, tags   *)
(* [allo-v1], created and updated at the event's block) and then           *)
(* UpdateRound for the same round, the insert strictly first.              *)
C12_RoundCreatedYieldsInsertThenUpdate ==
    (lastEvent.name = "RoundCreated" /\ outcome = "ok") =>
        /\ Len(changesets) = 2
        /\ changesets[1].type = "InsertRound"
        /\ changesets[1].round.id = lastEvent.args.roundAddress
        /\ changesets[1].round.projectId = lastEvent.args.ownedBy
        /\ changesets[1].round.tags = <<"allo-v1">>
        /\ changesets[1].round.createdAtBlock = lastEvent.blockNumber
        /\ changesets[1].round.updatedAtBlock = lastEvent.blockNumber
        /\ changesets[2].type = "UpdateRound"
        /\ changesets[2].roundId = lastEvent.args.roundAddress
        /\ changesets[2].round.updatedAtBlock = lastEvent.blockNumber

(* C14: handling an event never mutates storage: the collections are the   *)
(* same after the call as before it.                                       *)
C14_HandlingLeavesStorageAlone ==
    [][nEvents' = nEvents + 1 =>
          /\ projects' = projects
          /\ rounds' = rounds]_vars

(* C15: idempotent replay: handling an event that was already handled and  *)
(* applied leaves the stored state as the first application left it; no    *)
(* second project, owner entry or round appears.                           *)
C15_ReplayChangesNothing ==
    [][(nEvents' = nEvents + 1 /\ lastEvent' = lastEvent
          /\ outcome = "ok" /\ outcome' = "ok") =>
          /\ projects' = projects
          /\ rounds' = rounds]_vars

(* C16: bulk-delete tolerance: a revocation (OwnerRemoved, RoleRevoked)    *)
(* that matches no stored entry completes without error and leaves the     *)
(* role entries as they were.                                              *)
C16_RevocationOfNothingIsNoOp ==
    [][((Handled("OwnerRemoved")
           /\ OwnerEntries(projects, DerivedId(lastEvent'),
                           lastEvent'.args.owner) = {})
        \/ Handled("RoleRevoked")) =>
          /\ outcome' = "ok"
          /\ projects' = projects
          /\ rounds' = rounds]_vars

(* C17: no failure other than an unknown role constant is swallowed: a     *)
(* MetadataUpdated whose storage update fails because the project is not   *)
(* stored ends in an error for the caller.                                 *)
C17_FailedUpdatePropagates ==
    [][(Handled("MetadataUpdated")
          /\ IndexesById(projects, lastEvent'.args.projectID) = {}) =>
          outcome' = "error"]_vars

(* C18: a project's identifier fields never change once assigned: every    *)
(* stored project keeps its id and fullId through every later event.       *)
C18_ProjectIdImmutable ==
    [][/\ Len(projects') >= Len(projects)
       /\ \A i \in 1..Len(projects) :
             /\ projects'[i].fullId = projects[i].fullId
             /\ projects'[i].id = projects[i].id]_vars

C18_Witness ==
    /\ nEvents = 3
    /\ lastEvent.name \in {"OwnerAdded", "OwnerRemoved"}
    /\ outcome = "ok"
    /\ Len(projects) = 1
    /\ projects[1].metaPtr # Null
    /\ projects[1].fullId = DerivedId(lastEvent)

(* C19: every project and round carries an updatedAtBlock, and it never    *)
(* decreases from one applied mutation to the next.                        *)
C19_UpdatedAtBlockMonotone ==
    [][nEvents' = nEvents + 1 =>
          /\ \A i \in 1..Len(projects') :
                /\ "updatedAtBlock" \in DOMAIN projects'[i]
                /\ i <= Len(projects) =>
                       projects'[i].updatedAtBlock >= projects[i].updatedAtBlock
          /\ \A i \in 1..Len(rounds') :
                /\ "updatedAtBlock" \in DOMAIN rounds'[i]
                /\ i <= Len(rounds) =>
                       rounds'[i].updatedAtBlock >= rounds[i].updatedAtBlock]_vars

(* C20: role grants are append-only without deduplication: each applied    *)
(* OwnerAdded for an (entity, address) adds one more matching entry, and   *)
(* no entry that was stored is removed or rewritten by it.                 *)
C20_GrantAddsOneEntry ==
    [][(Handled("OwnerAdded") /\ outcome' = "ok") =>
          /\ Cardinality(OwnerEntries(projects', DerivedId(lastEvent'),
                                      lastEvent'.args.owner))
             = Cardinality(OwnerEntries(projects, DerivedId(lastEvent'),
                                        lastEvent'.args.owner)) + 1
          /\ Len(projects') = Len(projects)
          /\ \A i \in 1..Len(projects) :
                \A j \in 1..Len(projects[i].owners) :
                    /\ j <= Len(projects'[i].owners)
                    /\ projects'[i].owners[j] = projects[i].owners[j]]_vars

\* C13: handling is deterministic.  Whatever the storage holds, a Voted
\* event handled against it ends the same way and leaves the same votes
\* whenever it is handled: the result does not depend on the reading of the
\* wall clock.
C13_SameEventSameResult ==
    \A ev \in VotedEvents : \A now1, now2 \in Clock :
        {[outcome |-> r.outcome, votes |-> r.votes] : r \in VotedOutcomes(ev, now1)}
        = {[outcome |-> r.outcome, votes |-> r.votes] : r \in VotedOutcomes(ev, now2)}

(* C21: an entity is created only by its Created event: each ProjectCreated *)
(* or ProgramCreated adds exactly one project row, each successfully       *)
(* handled RoundCreated exactly one round row, and no other event adds or  *)
(* removes a row.                                                          *)
C21_EntitiesComeFromCreatedEvents ==
    [][nEvents' = nEvents + 1 =>
          /\ Len(projects') = Len(projects) +
                 (IF lastEvent'.name \in {"ProjectCreated", "ProgramCreated"}
                  THEN 1 ELSE 0)
          /\ Len(rounds') = Len(rounds) +
                 (IF lastEvent'.name = "RoundCreated" /\ outcome' = "ok"
                  THEN 1 ELSE 0)]_vars

(* C23: what the handler retained from earlier events does not change what *)
(* a later event produces: a Voted event handled with the prices cached so *)
(* far records the same votes as the same event handled with nothing       *)
(* cached and the same answers of the price service.                       *)
C23_RetainedCacheIsTransparent ==
    \A ev \in VotedEvents : \A now \in Clock :
        {r.votes : r \in {x \in VotedOutcomes(ev, now) : x.outcome = "ok"}}
        = {r.votes : r \in {x \in VotedOutcomesIn({}, ev, now) : x.outcome = "ok"}}

C23_Witness ==
    /\ priceCache # {}
    /\ \E ev \in VotedEvents : \E now \in Clock :
          \A r \in VotedOutcomes(ev, now) :
              r.outcome = "ok" /\ Len(r.votes) = Len(votes) + 2

(* C24: a Voted event records a vote only when the project application is  *)
(* in the round with status APPROVED and the round exists; otherwise the   *)
(* call returns normally and every collection is as before.  When a vote   *)
(* is recorded, the same record goes into the round's votes and into the   *)
(* application's votes.                                                    *)
C24_VoteOnlyForApprovedApplication ==
    [][Handled("Voted") =>
          LET ev == lastEvent'
              apps == ApplicationIndexes(applications, ev.args.roundAddress,
                                         ev.args.projectId)
              valid == /\ apps # {}
                       /\ applications[FirstIndex(apps)].status = "APPROVED"
                       /\ IndexesById(rounds, ev.args.roundAddress) # {}
              n == Len(votes)
          IN /\ projects' = projects
             /\ rounds' = rounds
             /\ applications' = applications
             /\ IF ~valid
                THEN outcome' = "ok" /\ votes' = votes
                ELSE \/ outcome' = "error" /\ votes' = votes
                     \/ /\ outcome' = "ok"
                        /\ Len(votes') = n + 2
                        /\ SubSeq(votes', 1, n) = votes
                        /\ votes'[n + 1].collection = <<"votes", ev.args.roundAddress>>
                        /\ votes'[n + 2].collection =
                               <<"projectVotes", ev.args.roundAddress, ev.args.projectId>>
                        /\ votes'[n + 1].vote = votes'[n + 2].vote
                        /\ votes'[n + 1].vote.voter = ev.args.voter
                        /\ votes'[n + 1].vote.fullProjectId = ev.args.projectId
                        /\ votes'[n + 1].vote.roundAddress = ev.args.roundAddress]_vars

C24_Witness ==
    /\ lastEvent.name = "Voted"
    /\ outcome = "ok"
    /\ Len(votes) = 2
    /\ votes[1].vote = votes[2].vote

(* C22: in RoundCreated the reads run concurrently and the handler waits   *)
(* for all of them: a round is inserted only when every read has settled   *)
(* and the metadata fetch is done, and the inserted round has the values   *)
(* the contract and the fetch answered, whatever the order in which the    *)
(* reads completed.                                                        *)
C22_InsertAfterAllReads ==
    [][rounds' # rounds =>
          LET ev == roundCall.ev
              address == ev.args.roundAddress
              pointer == ChainValue(address, "applicationMetaPtr")
          IN /\ \A r \in RoundReads : HasSettled(roundCall, r)
             /\ roundCall.rejected = {}
             /\ cache[pointer.pointer] # Undefined
             /\ rounds' = Append(rounds,
                    [id |-> address,
                     votesUSD |-> 0,
                     votes |-> 0,
                     implementationAddress |-> ev.args.roundImplementation,
                     applicationMetaPtr |-> pointer,
                     applicationMetadata |-> cache[pointer.pointer],
                     applicationsStartTime |->
                         ToString(ChainValue(address, "applicationsStartTime")),
                     applicationsEndTime |->
                         ToString(ChainValue(address, "applicationsEndTime")),
                     roundStartTime |-> ToString(ChainValue(address, "roundStartTime")),
                     roundEndTime |-> ToString(ChainValue(address, "roundEndTime"))])]_vars

\* A round inserted by a call whose reads completed in the reverse of the
\* order in which the handler awaits them.
C22_Witness ==
    /\ roundCall.pc = "idle"
    /\ lastEvent.name = "RoundCreated"
    /\ outcome = "ok"
    /\ Len(rounds) = 1
    /\ roundCall.settled = <<"roundEndTime", "roundStartTime", "applicationsEndTime",
                             "applicationsStartTime", "applicationMetaPtr">>

\* The place of a state type on the path empty, starting, ready, stopped.
StateRank(type) ==
    CASE type = "empty" -> 0
      [] type = "starting" -> 1
      [] type = "ready" -> 2
      [] type = "stopped" -> 3

(* C25: the passport provider's state only moves forward along empty,      *)
(* starting, ready, stopped: no step moves it back to an earlier state,    *)
(* and stopped is terminal.                                                *)
C25_StateOnlyMovesForward ==
    [][StateRank(state'.type) >= StateRank(state.type)]_vars

(* C26: every operation is guarded by the state: start() outside empty,    *)
(* and stop(), getScoreByAddress() or getScoresByAddresses() outside       *)
(* ready, fail with an error and leave the provider state and the score    *)
(* database as they were.                                                  *)
C26_GuardedOperations ==
    [][(/\ nCalls' = nCalls + 1
        /\ \/ lastCall'.op = "start" /\ state.type # "empty"
           \/ /\ lastCall'.op \in {"stop", "getScoreByAddress", "getScoresByAddresses"}
              /\ state.type # "ready") =>
          /\ lastCall'.result = "error"
          /\ state' = state
          /\ scores' = scores
          /\ timers' = timers
          /\ tasks' = tasks]_vars

\* stop() refused while a start() is fetching the first dump.
C26_Witness ==
    /\ lastCall.op = "stop"
    /\ lastCall.result = "error"
    /\ state.type = "starting"
    /\ \E t \in tasks : t.op = "start" /\ t.pc = "stream"

(* C27: once stop() has returned, polling is over: no poll timer remains   *)
(* scheduled and no poll callback fails with "Service not started".        *)
C27_NoPollingAfterStop ==
    state.type = "stopped" =>
        /\ timers = {}
        /\ ~(lastCall.op = "poll" /\ lastCall.error = "Service not started")

(* C28: when the initial full update fails during start(), start() rejects *)
(* and the provider is left usable: start() can be called again (empty) or *)
(* stop() succeeds (ready).                                                *)
C28_FailedStartLeavesUsableState ==
    (lastCall.op = "start" /\ lastCall.result = "error"
        /\ lastCall.error \in {"fetch failed", "Passport dump is empty", "stream error"})
    => state.type \in {"empty", "ready"}

\* The positions of the lines of `dump` that are of the configured community
\* and whose address lower-cases to `key`.
LinesFor(dump, key) ==
    {i \in 1..Len(dump) : /\ dump[i].community = ScorerId
                          /\ toLowerCase(dump[i].address) = key}

(* C29: a completed full update leaves, under each lower-cased address,    *)
(* the last dump record of the configured community for it, and writes     *)
(* nothing else; getScoreByAddress then returns the record stored for the  *)
(* address, in whatever letter case the address is given.                  *)
C29_FullUpdateThenLookup ==
    [][/\ \A t \in tasks :
             (t.pc = "stream" /\ t \notin tasks' /\ t.db
                /\ lastCall'.op = t.op /\ lastCall'.result = "ok") =>
             \A k \in AddressKeys :
                 scores'[k] =
                     IF LinesFor(t.dump, k) = {} THEN scores[k]
                     ELSE LET last == CHOOSE i \in LinesFor(t.dump, k) :
                                          \A j \in LinesFor(t.dump, k) : j <= i
                          IN [address |-> t.dump[last].address,
                              score |-> t.dump[last].score]
       /\ (nCalls' = nCalls + 1 /\ lastCall'.op = "getScoreByAddress"
             /\ lastCall'.result = "ok") =>
             lastCall'.value = scores[toLowerCase(lastCall'.arg)]]_vars

(* C30: getScoresByAddresses returns one entry for each distinct queried   *)
(* address that has a stored score and none for any other; every key of    *)
(* the result is one of the queried addresses.                             *)
C30_ScoresKeyedByQueriedAddress ==
    [][(nCalls' = nCalls + 1 /\ lastCall'.op = "getScoresByAddresses"
          /\ lastCall'.result = "ok") =>
          LET queried == {lastCall'.arg[i] : i \in 1..Len(lastCall'.arg)}
              keys == {e.key : e \in lastCall'.value}
          IN /\ keys \subseteq queried
             /\ Cardinality(lastCall'.value) = Cardinality(keys)
             /\ \A a \in queried : a \in keys <=> scores[a] # NotFound]_vars

(* The windows stored for a token: the timestamps of its prices. *)
Windows(token) ==
    {pricesFile[i].timestamp :
        i \in {j \in 1..Len(pricesFile) :
                  pricesFile[j].token = toLowerCase(token.address)}}

(* The time the claims measure from: one hour after the newest stored *)
(* price, the configured start timestamp when nothing is stored.      *)
NewestStoredPlusHour ==
    IF pricesFile = <<>> THEN PricesFromTimestamp
    ELSE MaxOf({pricesFile[i].timestamp : i \in 1..Len(pricesFile)}) + hours(1)

(* C31: once stop() has returned no poll timer remains scheduled, also    *)
(* when stop() was called while an update was in flight, and at any time  *)
(* at most one poll timer is pending, also after several calls of start().*)
C31_StopEndsPolling ==
    /\ Cardinality(priceTimers) <= 1
    /\ lastPriceCall = "stop" => priceTimers = {}

(* C32: an update that finds less than one whole hour between its target  *)
(* time and one hour after the newest stored price (the configured start  *)
(* timestamp when nothing is stored) returns without fetching a price and *)
(* without writing the prices file; it goes on to fetch only when at      *)
(* least an hour has elapsed.                                             *)
C32_FetchesOnlyAfterAWholeHour ==
    [][\A u \in updates : \A v \in updates' :
          (u.pc = "begin" /\ v.id = u.id /\ v.pc # "begin" /\ ~v.failed) =>
              /\ v.toDate - NewestStoredPlusHour < hours(1) =>
                     v.pc = "done" /\ pricesFile' = pricesFile
              /\ v.pc = "fetch" =>
                     v.toDate - NewestStoredPlusHour >= hours(1)]_vars

(* An update has returned early although prices are stored and its target *)
(* time lies after the newest stored hour, less than a whole hour after.  *)
C32_Witness ==
    \E u \in updates :
        /\ u.pc = "done" /\ ~u.failed
        /\ pricesFile # <<>>
        /\ u.lastPriceAt > PricesFromTimestamp
        /\ u.toDate - u.lastPriceAt > 0
        /\ u.toDate - u.lastPriceAt < hours(1)
        /\ u.timeElapsed = 0

(* C33: when an update has fetched and stored its prices and no update is *)
(* in progress, every configured token has prices for the same hourly     *)
(* windows, whatever updates failed part-way before.                      *)
C33_SameWindowsForEveryToken ==
    (updates = {} /\ lastUpdate = "fetched") =>
        \A i, j \in 1..Len(PriceTokens) :
            Windows(PriceTokens[i]) = Windows(PriceTokens[j])

====
